---- MODULE Spec2Model ----
(***************************************************************************)
(* Model of the tenure LRU cache (package tenure, LRUCache).               *)
(*                                                                         *)
(* The cache couples a Go container/list doubly linked list (lc.links)     *)
(* with a map from key to *list.Element (lc.cache).  The list is modelled  *)
(* at the pointer level: every element has prev, next and list fields and  *)
(* the list has a sentinel root and a len counter, because the code calls  *)
(* links.Init() while the map may still hold elements, and the list        *)
(* operations then act on elements that are no longer linked from root.    *)
(***************************************************************************)
EXTENDS Integers, Sequences, FiniteSets, TLC

\* ---------------------------------------------------------------- bounds
\* keys the callers use on a cache with a callback registered
MaxKey == 3
\* keys the callers use on a cache built with a nil callback
MaxNilKey == 2
\* values the callers store
MaxVal == 2
\* New and AdjustCapacity get a capacity in -NegCap..MaxCap
MaxCap == 2
NegCap == 1
\* list elements that exist at the same time
MaxElems == 5
\* goroutines that call the cache concurrently, and the keys they use
MaxThreads == 2
MaxConcKey == 2

\* keys of a run that fills a cache of capacity N with 2N distinct keys
FillKeys == 1..(2 * MaxCap)
\* the largest of three numbers
Max3(a, b, c) == IF a >= b /\ a >= c THEN a ELSE IF b >= c THEN b ELSE c
Keys == 1..Max3(MaxKey, MaxNilKey, 2 * MaxCap)
Vals == 1..MaxVal
\* arguments of New and AdjustCapacity (any int in the code)
CapArgs == (0 - NegCap)..MaxCap

\* ------------------------------------------------------------- the heap
\* &l.root
Root == 0
\* the nil pointer / a missing map entry
Nil == -1
\* addresses of list elements allocated by PushFront
ElemIds == 1..MaxElems
Addrs == 0..MaxElems

\* nil interface{} returned for a missing key or value
NilVal == 0

\* a list.Element that nothing refers to
Blank == [key |-> NilVal, value |-> NilVal, prev |-> Nil, next |-> Nil, list |-> FALSE]

VARIABLES
    capacity,       \* lc.capacity
    links,          \* lc.links: [e: Addrs -> element, len: Int]
    cache,          \* lc.cache: Keys -> ElemIds \cup {Nil}
    onItemEvicted,  \* lc.onItemEvicted # nil
    err,            \* New returned an error (and no cache)
    op,             \* the last public operation and its arguments
    ret,            \* what it returned
    evicted,        \* the callback invocations it made, in order
    recency,        \* history: present keys, least recently Put/Get first
    lastPut,        \* history: the value of the last Put of each present key
    hist,           \* history: the Puts and callback invocations since New, kept
                    \* (in the run that fills a fresh cache) while every call
                    \* since New was a Put of a new key
    lock,           \* lc.lock: [w: the goroutine holding Lock (0: none),
                    \*           r: the goroutines holding RLock]
    pc,             \* where each goroutine is in its call
    frame,          \* the locals of each goroutine's call
    crashed         \* the runtime stopped the process with a fatal error

\* the goroutines' part of the state
tvars == <<lock, pc, frame, crashed>>

vars == <<capacity, links, cache, onItemEvicted, err, op, ret, evicted, recency, lastPut,
          hist, lock, pc, frame, crashed>>

\* ---------------------------------------------------------- goroutines
Threads == 1..MaxThreads
\* the locals of a call: its name, and for AdjustCapacity bufCap (n), diff, i,
\* kv, the callback invocations made so far (ev) and links.Len() and
\* lc.capacity at entry (size, cap); for Keys, len(keys) (size)
IdleFrame == [name |-> "none", n |-> 0, diff |-> 0, i |-> 0, kv |-> -1, size |-> 0,
              cap |-> 0, ev |-> <<>>]
\* sync.RWMutex, unlocked
Unlocked == [w |-> 0, r |-> {}]

\* ----------------------------------------------------- container/list
\* list.Init: root.next = root.prev = &root; len = 0. Elements are untouched.
ListInit(l) ==
    [e |-> [l.e EXCEPT ![Root].next = Root, ![Root].prev = Root], len |-> 0]

\* list.New()
ListNew ==
    [e |-> [a \in Addrs |-> IF a = Root
                              THEN [Blank EXCEPT !.prev = Root, !.next = Root]
                              ELSE Blank],
     len |-> 0]

\* list.Len
ListLen(l) == l.len

\* list.Back: nil when len == 0, else root.prev
Back(l) == IF l.len = 0 THEN Nil ELSE l.e[Root].prev

\* Element.Prev: e.prev unless e.list == nil or e.prev is the root
Prev(l, x) ==
    IF l.e[x].list /\ l.e[x].prev # Root THEN l.e[x].prev ELSE Nil

\* list.insert(e, at), statement by statement
insert(l, x, at) ==
    LET e1 == [l.e EXCEPT ![x].prev = at]
        e2 == [e1 EXCEPT ![x].next = e1[at].next]
        e3 == [e2 EXCEPT ![e2[x].prev].next = x]
        e4 == [e3 EXCEPT ![e3[x].next].prev = x]
        e5 == [e4 EXCEPT ![x].list = TRUE]
    IN  [e |-> e5, len |-> l.len + 1]

\* list.remove(e), statement by statement
remove(l, x) ==
    LET e1 == [l.e EXCEPT ![l.e[x].prev].next = l.e[x].next]
        e2 == [e1 EXCEPT ![e1[x].next].prev = e1[x].prev]
        e3 == [e2 EXCEPT ![x].next = Nil, ![x].prev = Nil, ![x].list = FALSE]
    IN  [e |-> e3, len |-> l.len - 1]

\* list.move(e, at), statement by statement
move(l, x, at) ==
    IF x = at THEN l
    ELSE
    LET e1 == [l.e EXCEPT ![l.e[x].prev].next = l.e[x].next]
        e2 == [e1 EXCEPT ![e1[x].next].prev = e1[x].prev]
        e3 == [e2 EXCEPT ![x].prev = at]
        e4 == [e3 EXCEPT ![x].next = e3[at].next]
        e5 == [e4 EXCEPT ![e4[x].prev].next = x]
        e6 == [e5 EXCEPT ![e5[x].next].prev = x]
    IN  [e |-> e6, len |-> l.len]

\* list.Remove: only when e.list == l
Remove(l, x) == IF l.e[x].list THEN remove(l, x) ELSE l

\* list.MoveToFront: nothing when e.list != l or e is already root.next
MoveToFront(l, x) ==
    IF ~l.e[x].list \/ l.e[Root].next = x THEN l ELSE move(l, x, Root)

\* list.PushFront of a new element x holding &pair{key, value}
PushFront(l, x, key, value) ==
    insert([l EXCEPT !.e[x] = [Blank EXCEPT !.key = key, !.value = value]], x, Root)

\* ------------------------------------------------- memory reachability
\* the addresses the program can still reach: the root, the map's values and
\* everything linked from them
RECURSIVE Closure(_, _)
Closure(l, S) ==
    LET T == S \cup (({l.e[a].prev : a \in S} \cup {l.e[a].next : a \in S}) \ {Nil})
    IN  IF T = S THEN S ELSE Closure(l, T)

Reachable(l, c) == Closure(l, {Root} \cup ({c[k] : k \in Keys} \ {Nil}))

\* the elements the goroutines' locals point to
Held == {frame[t].kv : t \in Threads} \ {Nil}

\* the elements the locals of the goroutines other than t point to
HeldByOthers(t) == {frame[u].kv : u \in Threads \ {t}} \ {Nil}

\* an address the allocator may hand out: nothing refers to it
FreeIds(l, c) == ElemIds \ (Reachable(l, c) \cup Held)

\* the order in which a traversal from the map (by key) and then the root
\* discovers the reachable addresses, root first
RECURSIVE Discover(_, _, _)
Discover(l, ord, i) ==
    IF i > Len(ord) THEN ord
    ELSE LET seen == {ord[j] : j \in 1..Len(ord)}
             n == l.e[ord[i]].next
             p == l.e[ord[i]].prev
             o1 == IF n \in seen \cup {Nil} THEN ord ELSE Append(ord, n)
             o2 == IF p \in seen \cup {Nil, n} THEN o1 ELSE Append(o1, p)
         IN  Discover(l, o2, i + 1)

RECURSIVE MapOrder(_, _, _)
MapOrder(c, k, ord) ==
    IF k \notin Keys THEN ord
    ELSE MapOrder(c, k + 1, IF c[k] = Nil \/ \E j \in 1..Len(ord) : ord[j] = c[k]
                            THEN ord ELSE Append(ord, c[k]))

HeapOrder(l, c) == Discover(l, MapOrder(c, 1, <<Root>>), 1)

\* the address a reachable element gets: its position in the traversal
NewAddr(ord, a) == IF a = Nil THEN Nil ELSE (CHOOSE j \in 1..Len(ord) : ord[j] = a) - 1

\* the garbage collector: unreachable elements are forgotten, and the
\* reachable ones are named by their position in the traversal (addresses
\* are opaque to the program)
Collect(l, c) ==
    LET ord == HeapOrder(l, c)
    IN  [links |-> [l EXCEPT !.e = [a \in Addrs |->
                        IF a + 1 <= Len(ord)
                        THEN [l.e[ord[a + 1]] EXCEPT !.prev = NewAddr(ord, @),
                                                     !.next = NewAddr(ord, @)]
                        ELSE Blank]],
         cache |-> [k \in Keys |-> NewAddr(ord, c[k])]]

\* the collector runs only while no goroutine holds a pointer in a local
Settle(l, c, held) == IF held # {} THEN [links |-> l, cache |-> c] ELSE Collect(l, c)

\* ------------------------------------------------------------ LRUCache
Size == ListLen(links)
Capacity == capacity
Present == {k \in Keys : cache[k] # Nil}

\* the result of a call; the fields a call does not return stay at their zero
NoRet == [panicked |-> FALSE, ok |-> FALSE, key |-> NilVal, value |-> NilVal,
          n |-> 0, keys |-> <<>>]

\* a call: its name and arguments, and what held when it was entered:
\* hit (the key was in the map), size (links.Len()) and cap (lc.capacity)
Call(name, key, value, n) ==
    [name |-> name, key |-> key, value |-> value, n |-> n,
     hit |-> (key \in Keys /\ cache[key] # Nil), size |-> ListLen(links), cap |-> capacity]

\* the state a call works on: the list, the map, the callback invocations made
\* so far and whether the call has panicked
Enter == [links |-> links, cache |-> cache, ev |-> <<>>, panicked |-> FALSE]

\* history: k was just Put or Get
Touch(seq, k) == SelectSeq(seq, LAMBDA j : j # k) \o <<k>>
\* history: only the keys of the map are present
Restrict(seq, c) == SelectSeq(seq, LAMBDA j : c[j] # Nil)

\* purgeLRUItem: links.Remove(e); kv := e.Value.(*pair); delete(cache, kv.key).
\* The root's Value is nil, so the type assertion panics for it.
purgeLRUItem(cs, x) ==
    IF x = Root
    THEN [cs EXCEPT !.links = Remove(cs.links, x), !.panicked = TRUE]
    ELSE [cs EXCEPT !.links = Remove(cs.links, x),
                    !.cache[cs.links.e[x].key] = Nil]

\* tryEvict: the callback, when registered, gets the element's key and value
tryEvict(cs, x) ==
    IF onItemEvicted
    THEN [cs EXCEPT !.ev = Append(cs.ev, <<cs.links.e[x].key, cs.links.e[x].value>>)]
    ELSE cs

\* lc.purgeLRUItem(kv); lc.tryEvict(kv)
EvictElem(cs, x) ==
    LET p == purgeLRUItem(cs, x)
    IN  IF p.panicked THEN p ELSE tryEvict(p, x)

\* history: no longer a run of Puts of new keys
HistOff == [on |-> FALSE, puts |-> <<>>, calls |-> <<>>]
\* history: the call o, which made the callback invocations ev, has returned
Record(o, ev) ==
    IF hist.on /\ o.name = "Put" /\ \A i \in 1..Len(hist.puts) : hist.puts[i][1] # o.key
    THEN [on |-> TRUE, puts |-> Append(hist.puts, <<o.key, o.value>>),
          calls |-> hist.calls \o ev]
    ELSE HistOff

\* the end of a call: the deferred unlock runs and the caller sees the result
Return(cs, o, r, rec) ==
    /\ LET kept == Settle(cs.links, cs.cache, Held)
       IN  links' = kept.links /\ cache' = kept.cache
    /\ evicted' = cs.ev
    /\ op' = o
    /\ ret' = [r EXCEPT !.panicked = cs.panicked]
    /\ recency' = Restrict(rec, cs.cache)
    /\ lastPut' = [k \in Keys |-> IF cs.cache[k] = Nil THEN NilVal
                                  ELSE IF o.name = "Put" /\ o.key = k THEN o.value
                                  ELSE lastPut[k]]
    /\ hist' = Record(o, cs.ev)

\* New as it would be if it rejected negative capacities only
New_AcceptsZero(bufCap, cb, track) ==
    /\ err = (bufCap < 0)
    /\ capacity = IF bufCap < 0 THEN 0 ELSE bufCap
    /\ links = ListNew
    /\ cache = [k \in Keys |-> Nil]
    /\ onItemEvicted = (cb /\ bufCap >= 0)
    /\ op = [name |-> "New", key |-> NilVal, value |-> NilVal, n |-> bufCap,
             hit |-> FALSE, size |-> 0, cap |-> 0]
    /\ ret = [NoRet EXCEPT !.ok = (bufCap >= 0)]
    /\ evicted = <<>>
    /\ recency = <<>>
    /\ lastPut = [k \in Keys |-> NilVal]
    /\ hist = [on |-> track /\ bufCap >= 0, puts |-> <<>>, calls |-> <<>>]
    /\ lock = Unlocked
    /\ pc = [t \in Threads |-> "idle"]
    /\ frame = [t \in Threads |-> IdleFrame]
    /\ crashed = FALSE

\* New(bufCap, onItemEvicted): the error and no cache for bufCap <= 0, else an
\* empty cache; track says whether the history of Puts is kept
New(bufCap, cb, track) ==
    /\ err = (bufCap <= 0)
    /\ capacity = IF bufCap <= 0 THEN 0 ELSE bufCap
    /\ links = ListNew
    /\ cache = [k \in Keys |-> Nil]
    /\ onItemEvicted = (cb /\ bufCap > 0)
    /\ op = [name |-> "New", key |-> NilVal, value |-> NilVal, n |-> bufCap,
             hit |-> FALSE, size |-> 0, cap |-> 0]
    /\ ret = [NoRet EXCEPT !.ok = (bufCap > 0)]
    /\ evicted = <<>>
    /\ recency = <<>>
    /\ lastPut = [k \in Keys |-> NilVal]
    /\ hist = [on |-> track /\ bufCap > 0, puts |-> <<>>, calls |-> <<>>]
    /\ lock = Unlocked
    /\ pc = [t \in Threads |-> "idle"]
    /\ frame = [t \in Threads |-> IdleFrame]
    /\ crashed = FALSE

Init == \E bufCap \in CapArgs, cb \in BOOLEAN : New(bufCap, cb, FALSE)

Get(key) ==
    /\ ~err
    /\ LET kv == cache[key]
       IN  IF kv # Nil
           THEN Return([Enter EXCEPT !.links = MoveToFront(links, kv)],
                       Call("Get", key, NilVal, 0),
                       [NoRet EXCEPT !.ok = TRUE, !.value = links.e[kv].value],
                       Touch(recency, key))
           ELSE Return(Enter, Call("Get", key, NilVal, 0), NoRet, recency)
    /\ UNCHANGED <<capacity, onItemEvicted, err>>

\* the new key's part of Put as it would be if it evicted at capacity
PutNew_EvictsAtCapacity(key, value, x) ==
    LET pushed == [Enter EXCEPT !.links = PushFront(links, x, key, value),
                                !.cache[key] = x]
        kv == Back(pushed.links)
    IN  IF ListLen(pushed.links) >= capacity /\ kv # Nil
        THEN [cs |-> EvictElem(pushed, kv), ok |-> TRUE]
        ELSE [cs |-> pushed, ok |-> FALSE]

\* the new key's part of Put: push, index, evict the tail when over capacity
PutNew(key, value, x) ==
    LET pushed == [Enter EXCEPT !.links = PushFront(links, x, key, value),
                                !.cache[key] = x]
        kv == Back(pushed.links)
    IN  IF ListLen(pushed.links) > capacity /\ kv # Nil
        THEN [cs |-> EvictElem(pushed, kv), ok |-> TRUE]
        ELSE [cs |-> pushed, ok |-> FALSE]

\* Put as it would be if the update of a present key forgot MoveToFront
Put_NoPromote(key, value) ==
    /\ ~err
    /\ LET kv == cache[key]
       IN  IF kv # Nil
           THEN Return([Enter EXCEPT !.links.e[kv].value = value],
                       Call("Put", key, value, 0), NoRet, Touch(recency, key))
           ELSE /\ FreeIds(links, cache) # {}
                /\ LET x == CHOOSE a \in FreeIds(links, cache) :
                                \A b \in FreeIds(links, cache) : a <= b
                       r == PutNew(key, value, x)
                   IN  Return(r.cs, Call("Put", key, value, 0),
                              [NoRet EXCEPT !.ok = r.ok /\ ~r.cs.panicked],
                              Touch(recency, key))
    /\ UNCHANGED <<capacity, onItemEvicted, err>>

Put(key, value) ==
    /\ ~err
    /\ LET kv == cache[key]
       IN  IF kv # Nil
           THEN Return([Enter EXCEPT !.links =
                            [MoveToFront(links, kv) EXCEPT !.e[kv].value = value]],
                       Call("Put", key, value, 0), NoRet, Touch(recency, key))
           ELSE /\ FreeIds(links, cache) # {}
                /\ LET x == CHOOSE a \in FreeIds(links, cache) :
                                \A b \in FreeIds(links, cache) : a <= b
                       r == PutNew(key, value, x)
                   IN  Return(r.cs, Call("Put", key, value, 0),
                              [NoRet EXCEPT !.ok = r.ok /\ ~r.cs.panicked],
                              Touch(recency, key))
    /\ UNCHANGED <<capacity, onItemEvicted, err>>

Del(key) ==
    /\ ~err
    /\ LET kv == cache[key]
       IN  IF kv # Nil
           THEN Return(purgeLRUItem(Enter, kv), Call("Del", key, NilVal, 0),
                       [NoRet EXCEPT !.ok = TRUE], recency)
           ELSE Return(Enter, Call("Del", key, NilVal, 0), NoRet, recency)
    /\ UNCHANGED <<capacity, onItemEvicted, err>>

\* n nil slots of a slice
RECURSIVE NilSlots(_)
NilSlots(n) == IF n <= 0 THEN <<>> ELSE <<NilVal>> \o NilSlots(n - 1)

\* the loop of Keys: from Back() along Prev(), keys[i] = k.Value.(*pair).key.
\* keys has size slots, of which the first i are written; a write past them,
\* and the root's nil Value, panic. Slots never written stay nil.
RECURSIVE KeysWalk(_, _, _, _, _)
KeysWalk(l, k, i, size, keys) ==
    IF k = Nil THEN [panicked |-> FALSE, keys |-> keys \o NilSlots(size - i)]
    ELSE IF k = Root \/ i >= size THEN [panicked |-> TRUE, keys |-> <<>>]
    ELSE KeysWalk(l, Prev(l, k), i + 1, size, Append(keys, l.e[k].key))

\* Keys: make([]interface{}, links.Len()) panics for a negative length
KeysOf(l) ==
    IF ListLen(l) < 0 THEN [panicked |-> TRUE, keys |-> <<>>]
    ELSE KeysWalk(l, Back(l), 0, ListLen(l), <<>>)

KeysResult == KeysOf(links)

KeysOp ==
    /\ ~err
    /\ Return([Enter EXCEPT !.panicked = KeysResult.panicked],
              Call("Keys", NilVal, NilVal, 0),
              [NoRet EXCEPT !.keys = KeysResult.keys], recency)
    /\ UNCHANGED <<capacity, onItemEvicted, err>>

Peek(key) ==
    /\ ~err
    /\ Return(Enter, Call("Peek", key, NilVal, 0),
              [NoRet EXCEPT !.value = IF cache[key] # Nil
                                      THEN links.e[cache[key]].value ELSE NilVal],
              recency)
    /\ UNCHANGED <<capacity, onItemEvicted, err>>

\* Has as it would be if it promoted the entry the way Get does
Has_Promotes(key) ==
    /\ ~err
    /\ Return([Enter EXCEPT !.links = IF cache[key] # Nil
                                      THEN MoveToFront(links, cache[key]) ELSE links],
              Call("Has", key, NilVal, 0),
              [NoRet EXCEPT !.ok = (cache[key] # Nil)], recency)
    /\ UNCHANGED <<capacity, onItemEvicted, err>>

Has(key) ==
    /\ ~err
    /\ Return(Enter, Call("Has", key, NilVal, 0),
              [NoRet EXCEPT !.ok = (cache[key] # Nil)], recency)
    /\ UNCHANGED <<capacity, onItemEvicted, err>>

\* the orders in which `range lc.cache` may visit the keys of the map
RangeOrders(c) ==
    LET P == {k \in Keys : c[k] # Nil}
    IN  {f \in [1..Cardinality(P) -> P] : \A i, j \in DOMAIN f : i # j => f[i] # f[j]}

\* the loop of Drop over the map, in the order `order`; an entry deleted
\* before the loop reaches it is not visited
\* the loop of Drop as it would be if it stopped one entry early
RECURSIVE DropLoop_SkipsLast(_, _, _)
DropLoop_SkipsLast(cs, order, i) ==
    IF i >= Len(order) THEN cs
    ELSE LET v == cs.cache[order[i]]
         IN  DropLoop_SkipsLast(IF v # Nil /\ onItemEvicted THEN EvictElem(cs, v) ELSE cs,
                                order, i + 1)

RECURSIVE DropLoop(_, _, _)
DropLoop(cs, order, i) ==
    IF i > Len(order) THEN cs
    ELSE LET v == cs.cache[order[i]]
         IN  DropLoop(IF v # Nil /\ onItemEvicted THEN EvictElem(cs, v) ELSE cs,
                      order, i + 1)

Drop ==
    /\ ~err
    /\ \E order \in RangeOrders(cache) :
          LET looped == DropLoop(Enter, order, 1)
          IN  Return([looped EXCEPT !.links = ListInit(looped.links)],
                     Call("Drop", NilVal, NilVal, 0), NoRet, recency)
    /\ UNCHANGED <<capacity, onItemEvicted, err>>

SizeOp ==
    /\ ~err
    /\ Return(Enter, Call("Size", NilVal, NilVal, 0),
              [NoRet EXCEPT !.n = ListLen(links)], recency)
    /\ UNCHANGED <<capacity, onItemEvicted, err>>

CapacityOp ==
    /\ ~err
    /\ Return(Enter, Call("Capacity", NilVal, NilVal, 0),
              [NoRet EXCEPT !.n = capacity], recency)
    /\ UNCHANGED <<capacity, onItemEvicted, err>>

\* the loop of AdjustCapacity: diff times, evict Back() when it is not nil
RECURSIVE AdjustLoop(_, _, _)
AdjustLoop(cs, i, diff) ==
    IF i >= diff \/ cs.panicked THEN cs
    ELSE LET kv == Back(cs.links)
         IN  AdjustLoop(IF kv # Nil THEN EvictElem(cs, kv) ELSE cs, i + 1, diff)

\* diff := links.Len() - bufCap, clamped at 0
AdjustDiff(bufCap) ==
    IF ListLen(links) - bufCap < 0 THEN 0 ELSE ListLen(links) - bufCap

AdjustCapacity(bufCap) ==
    /\ ~err
    /\ LET looped == AdjustLoop(Enter, 0, AdjustDiff(bufCap))
       IN  /\ Return(looped, Call("AdjustCapacity", NilVal, NilVal, bufCap),
                     [NoRet EXCEPT !.n = IF looped.panicked THEN 0
                                         ELSE AdjustDiff(bufCap)],
                     recency)
           /\ capacity' = IF looped.panicked THEN capacity ELSE bufCap
    /\ UNCHANGED <<onItemEvicted, err>>

LeastRecentlyUsed ==
    /\ ~err
    /\ LET kv == Back(links)
       IN  IF kv = Nil
           THEN Return(Enter, Call("LeastRecentlyUsed", NilVal, NilVal, 0), NoRet, recency)
           ELSE IF kv = Root
           THEN Return([Enter EXCEPT !.panicked = TRUE],
                       Call("LeastRecentlyUsed", NilVal, NilVal, 0), NoRet, recency)
           ELSE Return(Enter, Call("LeastRecentlyUsed", NilVal, NilVal, 0),
                       [NoRet EXCEPT !.key = links.e[kv].key,
                                     !.value = links.e[kv].value],
                       recency)
    /\ UNCHANGED <<capacity, onItemEvicted, err>>

\* the keys the callers of this cache pass to it
CallerKeys == IF onItemEvicted THEN 1..MaxKey ELSE 1..MaxNilKey

\* the values the callers of this cache store in it. A cache built with a nil
\* callback gets one value only: what differs there is the structure of the
\* list, and a value is a field no list operation reads.
CallerVals == IF onItemEvicted THEN Vals ELSE {1}

\* a call made while no other goroutine calls the cache: it takes the lock,
\* runs and releases it in one step
Alone(call) == call /\ UNCHANGED tvars

Next ==
    \/ \E k \in CallerKeys : Alone(Get(k))
    \/ \E k \in CallerKeys, v \in CallerVals : Alone(Put(k, v))
    \/ \E k \in CallerKeys : Alone(Del(k))
    \/ Alone(KeysOp)
    \/ \E k \in CallerKeys : Alone(Peek(k))
    \/ \E k \in CallerKeys : Alone(Has(k))
    \/ Alone(Drop)
    \/ Alone(SizeOp)
    \/ Alone(CapacityOp)
    \/ \E n \in CapArgs : Alone(AdjustCapacity(n))
    \/ Alone(LeastRecentlyUsed)

Spec == Init /\ [][Next]_vars

\* ------------------------------------------------ filling a fresh cache
\* the keys Put since New, in order
PutKeys == [i \in 1..Len(hist.puts) |-> hist.puts[i][1]]

\* one more Put of a new key, storing the key as its value, until 2N are in
FillPut(k) ==
    /\ hist.on
    /\ Len(hist.puts) < 2 * capacity
    /\ \A i \in 1..Len(hist.puts) : PutKeys[i] # k
    /\ Alone(Put(k, k))

FillNext == \E k \in FillKeys : FillPut(k)

\* New, with the history of Puts kept
FillInit == \E bufCap \in CapArgs, cb \in BOOLEAN : New(bufCap, cb, TRUE)

\* a fresh cache of capacity N that gets 2N distinct keys, in any order
FillSpec == FillInit /\ [][FillNext]_vars

\* ------------------------------------------------- concurrent callers
\* the keys and capacities the concurrent callers pass, and the value they store
ConcKeys == 1..MaxConcKey
\* the keys the concurrent callers of this cache pass: one key on a cache
\* built with a nil callback
ConcCallerKeys == IF onItemEvicted THEN ConcKeys ELSE {1}
ConcCaps == 0..MaxCap
ConcVal == 1

\* the methods that call lc.lock.Lock(), lc.lock.RLock(), and neither
ExclusiveOps == {"Get", "Put", "Del", "Has", "Drop"}
SharedOps == {"Keys", "Peek", "Size", "Capacity", "AdjustCapacity"}
UnlockedOps == {"LeastRecentlyUsed"}

\* a goroutine is inside the body of a method: past the lock call, if any,
\* and not yet returned
InBody(t) == pc[t] \notin {"idle", "wait"}

\* the deferred Unlock / RUnlock and the return to the caller
Finish(t) ==
    /\ lock' = [w |-> IF lock.w = t THEN 0 ELSE lock.w, r |-> lock.r \ {t}]
    /\ pc' = [pc EXCEPT ![t] = "idle"]
    /\ frame' = [frame EXCEPT ![t] = IdleFrame]
    /\ UNCHANGED crashed

\* a goroutine calls a method; LeastRecentlyUsed has no lock call to wait in
Invoke(t) ==
    /\ ~err /\ ~crashed
    /\ pc[t] = "idle"
    /\ \E name \in ExclusiveOps \cup SharedOps \cup UnlockedOps :
          /\ pc' = [pc EXCEPT ![t] = IF name \in UnlockedOps THEN "in" ELSE "wait"]
          /\ frame' = [frame EXCEPT ![t].name = name]
    /\ UNCHANGED <<capacity, links, cache, onItemEvicted, err, op, ret, evicted,
                   recency, lastPut, hist, lock, crashed>>

\* a goroutine blocked in lc.lock.Lock() can go on: no goroutine holds the lock
CanLockW(t) ==
    /\ ~crashed
    /\ pc[t] = "wait" /\ frame[t].name \in ExclusiveOps
    /\ lock.w = 0 /\ lock.r = {}

\* a goroutine blocked in lc.lock.RLock() can go on: no goroutine holds Lock,
\* and none is blocked in Lock() (a blocked Lock call excludes new readers)
CanRLock(t) ==
    /\ ~crashed
    /\ pc[t] = "wait" /\ frame[t].name \in SharedOps
    /\ lock.w = 0
    /\ \A u \in Threads : ~(pc[u] = "wait" /\ frame[u].name \in ExclusiveOps)

\* a goroutine inside a body can go on: the process is running
CanRun(t) == ~crashed /\ InBody(t)

\* lc.lock.Lock() returns
LockW(t) ==
    /\ CanLockW(t)
    /\ lock' = [lock EXCEPT !.w = t]
    /\ pc' = [pc EXCEPT ![t] = "in"]
    /\ UNCHANGED <<capacity, links, cache, onItemEvicted, err, op, ret, evicted,
                   recency, lastPut, hist, frame, crashed>>

\* lc.lock.RLock() returns
RLock(t) ==
    /\ CanRLock(t)
    /\ lock' = [lock EXCEPT !.r = @ \cup {t}]
    /\ pc' = [pc EXCEPT ![t] = "in"]
    /\ UNCHANGED <<capacity, links, cache, onItemEvicted, err, op, ret, evicted,
                   recency, lastPut, hist, frame, crashed>>

\* the body of a method that runs from its lock call to its return without
\* a loop over the list: the call's effect, then the deferred unlock
Body(t) ==
    /\ ~crashed
    /\ pc[t] = "in"
    /\ \/ frame[t].name = "Get" /\ \E k \in ConcCallerKeys : Get(k)
       \/ frame[t].name = "Put" /\ \E k \in ConcCallerKeys : Put(k, ConcVal)
       \/ frame[t].name = "Del" /\ \E k \in ConcCallerKeys : Del(k)
       \/ frame[t].name = "Has" /\ \E k \in ConcCallerKeys : Has(k)
       \/ frame[t].name = "Peek" /\ \E k \in ConcCallerKeys : Peek(k)
       \/ frame[t].name = "Drop" /\ Drop
       \/ frame[t].name = "Size" /\ SizeOp
       \/ frame[t].name = "Capacity" /\ CapacityOp
       \/ frame[t].name = "LeastRecentlyUsed" /\ LeastRecentlyUsed
    /\ Finish(t)

\* Keys: keys := make([]interface{}, lc.links.Len())
KeysAlloc(t) ==
    /\ ~crashed
    /\ pc[t] = "in" /\ frame[t].name = "Keys"
    /\ IF ListLen(links) < 0
       THEN /\ Return([Enter EXCEPT !.panicked = TRUE],
                      Call("Keys", NilVal, NilVal, 0), NoRet, recency)
            /\ Finish(t)
            /\ UNCHANGED <<capacity, onItemEvicted, err>>
       ELSE /\ pc' = [pc EXCEPT ![t] = "walk"]
            /\ frame' = [frame EXCEPT ![t].size = ListLen(links)]
            /\ UNCHANGED <<capacity, links, cache, onItemEvicted, err, op, ret, evicted,
                           recency, lastPut, hist, lock, crashed>>

\* Keys: the loop from Back() along Prev() into the slice made before
KeysLoop(t) ==
    /\ ~crashed
    /\ pc[t] = "walk"
    /\ LET w == KeysWalk(links, Back(links), 0, frame[t].size, <<>>)
       IN  Return([Enter EXCEPT !.panicked = w.panicked],
                  Call("Keys", NilVal, NilVal, 0),
                  [NoRet EXCEPT !.keys = w.keys], recency)
    /\ Finish(t)
    /\ UNCHANGED <<capacity, onItemEvicted, err>>

\* AdjustCapacity: diff := lc.links.Len() - bufCap, clamped at 0
AdjustEnter(t) ==
    /\ ~crashed
    /\ pc[t] = "in" /\ frame[t].name = "AdjustCapacity"
    /\ \E bufCap \in ConcCaps :
          frame' = [frame EXCEPT ![t].n = bufCap, ![t].diff = AdjustDiff(bufCap),
                                 ![t].i = 0, ![t].size = ListLen(links),
                                 ![t].cap = capacity]
    /\ pc' = [pc EXCEPT ![t] = "loop"]
    /\ UNCHANGED <<capacity, links, cache, onItemEvicted, err, op, ret, evicted,
                   recency, lastPut, hist, lock, crashed>>

\* AdjustCapacity: i < diff; kv := lc.links.Back(); kv != nil
AdjustBack(t) ==
    /\ ~crashed
    /\ pc[t] = "loop" /\ frame[t].i < frame[t].diff
    /\ LET kv == Back(links)
       IN  IF kv = Nil
           THEN /\ frame' = [frame EXCEPT ![t].i = @ + 1]
                /\ UNCHANGED pc
           ELSE /\ frame' = [frame EXCEPT ![t].kv = kv]
                /\ pc' = [pc EXCEPT ![t] = "evict"]
    /\ UNCHANGED <<capacity, links, cache, onItemEvicted, err, op, ret, evicted,
                   recency, lastPut, hist, lock, crashed>>

\* AdjustCapacity: lc.purgeLRUItem(kv); lc.tryEvict(kv); i++
AdjustEvict(t) ==
    /\ ~crashed
    /\ pc[t] = "evict"
    /\ LET cs == EvictElem([Enter EXCEPT !.ev = frame[t].ev], frame[t].kv)
           o == [Call("AdjustCapacity", NilVal, NilVal, frame[t].n)
                    EXCEPT !.size = frame[t].size, !.cap = frame[t].cap]
       IN  IF cs.panicked
           THEN Return(cs, o, NoRet, recency) /\ Finish(t)
           ELSE /\ LET kept == Settle(cs.links, cs.cache, HeldByOthers(t))
                   IN  links' = kept.links /\ cache' = kept.cache
                /\ recency' = Restrict(recency, cs.cache)
                /\ lastPut' = [k \in Keys |-> IF cs.cache[k] = Nil THEN NilVal
                                              ELSE lastPut[k]]
                /\ hist' = HistOff
                /\ frame' = [frame EXCEPT ![t].ev = cs.ev, ![t].kv = Nil,
                                          ![t].i = @ + 1]
                /\ pc' = [pc EXCEPT ![t] = "loop"]
                /\ UNCHANGED <<op, ret, evicted, lock, crashed>>
    /\ UNCHANGED <<capacity, onItemEvicted, err>>

\* AdjustCapacity: i >= diff; lc.capacity = bufCap; return diff
AdjustReturn(t) ==
    /\ ~crashed
    /\ pc[t] = "loop" /\ frame[t].i >= frame[t].diff
    /\ capacity' = frame[t].n
    /\ Return([Enter EXCEPT !.ev = frame[t].ev],
              [Call("AdjustCapacity", NilVal, NilVal, frame[t].n)
                  EXCEPT !.size = frame[t].size, !.cap = frame[t].cap],
              [NoRet EXCEPT !.n = frame[t].diff], recency)
    /\ Finish(t)
    /\ UNCHANGED <<onItemEvicted, err>>

\* the map is written by one goroutine (delete in purgeLRUItem) while another
\* writes or reads it: one outcome of the race is the runtime's fatal error
\* "concurrent map writes" / "concurrent map read and map write"
Crash ==
    /\ ~crashed
    /\ \E t, u \in Threads :
          /\ t # u
          /\ pc[t] = "evict" /\ frame[t].kv # Root
          /\ \/ pc[u] = "evict" /\ frame[u].kv # Root
             \/ pc[u] = "in" /\ frame[u].name = "Peek"
    /\ Present # {}
    /\ crashed' = TRUE
    /\ UNCHANGED <<capacity, links, cache, onItemEvicted, err, op, ret, evicted,
                   recency, lastPut, hist, lock, pc, frame>>

\* the steps of goroutine t once it is past its lock call
Run(t) ==
    /\ CanRun(t)
    /\ \/ Body(t)
       \/ KeysAlloc(t)
       \/ KeysLoop(t)
       \/ AdjustEnter(t)
       \/ AdjustBack(t)
       \/ AdjustEvict(t)
       \/ AdjustReturn(t)

ConcNext ==
    \/ \E t \in Threads : Invoke(t)
    \/ \E t \in Threads : LockW(t)
    \/ \E t \in Threads : RLock(t)
    \/ \E t \in Threads : Run(t)
    \/ Crash

ConcSpec == Init /\ [][ConcNext]_vars

\* ------------------------------------------------------ observations
\* Keys() of a list panics
KeysPanics(l) == KeysOf(l).panicked
\* the keys in the order Keys() walks them, least recently used first
OrderOf(l) == KeysOf(l).keys
\* the keys of a map
PresentIn(c) == {k \in Keys : c[k] # Nil}
\* the value stored for a present key
ValueIn(l, c, k) == l.e[c[k]].value
\* the key at the head of the list (0 when the list is empty)
FrontKeyOf(l) == l.e[l.e[Root].next].key
\* the first n elements of a sequence
Take(sq, n) == SubSeq(sq, 1, n)
\* what is left after the first n elements
DropFirst(sq, n) == SubSeq(sq, n + 1, Len(sq))
\* the set of elements of a sequence
Range(sq) == {sq[i] : i \in 1..Len(sq)}
\* a sequence without the key k
Without(sq, k) == SelectSeq(sq, LAMBDA j : j # k)
\* the elements linked from the root along next
RECURSIVE Forward(_, _)
Forward(l, S) ==
    LET T == S \cup ({l.e[a].next : a \in S} \ {Nil})
    IN  IF T = S THEN S ELSE Forward(l, T)
Linked(l) == Forward(l, {Root}) \ {Root}

\* ---------------------------------------------------------------- claims

\* C1: after every completed public operation, Size() <= Capacity().
C1_CapacityInvariant == ~err => Size <= Capacity

\* C2: a Put of an absent key into a cache holding Capacity() entries removes
\* exactly the least recently Put/Get entry, reports it once to the callback
\* (if registered) and returns true; every other Put returns false and
\* invokes no callback.
C2_LruVictim ==
    [][op'.name = "Put" =>
        IF ~op'.hit /\ op'.size = op'.cap
        THEN LET victim == Head(Touch(recency, op'.key))
                 vvalue == IF victim = op'.key THEN op'.value
                           ELSE ValueIn(links, cache, victim)
             IN  /\ ret'.ok /\ ~ret'.panicked
                 /\ PresentIn(cache') = (PresentIn(cache) \cup {op'.key}) \ {victim}
                 /\ evicted' = IF onItemEvicted THEN << <<victim, vvalue>> >> ELSE <<>>
        ELSE ~ret'.ok /\ ~ret'.panicked /\ evicted' = <<>>]_vars

\* C3: a Put of a present key returns false, invokes no callback, leaves
\* Size() and the set of present keys unchanged, overwrites the value and
\* makes the key the most recently used entry.
C3_UpdateInPlace ==
    [][(op'.name = "Put" /\ op'.hit) =>
        /\ ~ret'.ok /\ ~ret'.panicked
        /\ evicted' = <<>>
        /\ ListLen(links') = ListLen(links)
        /\ PresentIn(cache') = PresentIn(cache)
        /\ ValueIn(links', cache', op'.key) = op'.value
        /\ FrontKeyOf(links') = op'.key]_vars

\* C3 witness: a full cache of at least two entries took a Put of a present
\* key; nothing was evicted and the key is at the head with the new value.
C3_Witness ==
    /\ op.name = "Put" /\ op.hit /\ op.size = op.cap /\ op.size >= 2
    /\ ~ret.ok /\ evicted = <<>>
    /\ Size = op.size
    /\ FrontKeyOf(links) = op.key
    /\ ValueIn(links, cache, op.key) = op.value

\* C4: Get(k) returns (v, true) exactly when k is present, v being the value
\* of the last Put of k, and moves k to the most recently used position
\* keeping the order of the others; on a miss it returns (nil, false) and
\* changes nothing.
C4_Get ==
    [][op'.name = "Get" =>
        IF cache[op'.key] # Nil
        THEN /\ ret'.ok /\ ~ret'.panicked
             /\ ret'.value = lastPut[op'.key]
             /\ ~KeysPanics(links) =>
                   /\ ~KeysPanics(links')
                   /\ OrderOf(links') = Touch(OrderOf(links), op'.key)
             /\ PresentIn(cache') = PresentIn(cache)
             /\ ListLen(links') = ListLen(links)
             /\ capacity' = capacity
        ELSE /\ ~ret'.ok /\ ret'.value = NilVal /\ ~ret'.panicked
             /\ UNCHANGED <<links, cache, capacity>>]_vars

\* C5: Has and Peek change neither the list, the map, the values nor the
\* capacity and invoke no callback; Has returns the presence of the key and
\* Peek its value or nil.
C5_HasPeekFrame ==
    [][op'.name \in {"Has", "Peek"} =>
        /\ UNCHANGED <<links, cache, capacity, recency>>
        /\ evicted' = <<>> /\ ~ret'.panicked
        /\ op'.name = "Has" => ret'.ok = (cache[op'.key] # Nil)
        /\ op'.name = "Peek" =>
              ret'.value = IF cache[op'.key] # Nil THEN lastPut[op'.key] ELSE NilVal]_vars

\* C5 witness: Has found the least recently used of at least two entries,
\* and that key is still the least recently used one.
C5_Witness ==
    /\ op.name = "Has" /\ op.hit /\ ret.ok
    /\ Size >= 2 /\ ~KeysPanics(links)
    /\ OrderOf(links)[1] = op.key
    /\ recency[1] = op.key

\* C6: Del of a present key returns true, removes exactly that key, makes
\* Size() one less, keeps the order of the others and invokes no callback;
\* Del of an absent key returns false and changes nothing.
C6_Del ==
    [][op'.name = "Del" =>
        IF cache[op'.key] # Nil
        THEN /\ ret'.ok /\ ~ret'.panicked
             /\ PresentIn(cache') = PresentIn(cache) \ {op'.key}
             /\ ListLen(links') = ListLen(links) - 1
             /\ ~KeysPanics(links) =>
                   /\ ~KeysPanics(links')
                   /\ OrderOf(links') = Without(OrderOf(links), op'.key)
             /\ evicted' = <<>>
        ELSE /\ ~ret'.ok /\ ~ret'.panicked /\ evicted' = <<>>
             /\ UNCHANGED <<links, cache, capacity>>]_vars

\* C7: after Drop, Size() is 0 and Keys() is empty, and a registered
\* callback was invoked exactly once for each entry present before the call,
\* with its key and value, and for no other key.
C7_PurgeComplete ==
    [][op'.name = "Drop" =>
        /\ ListLen(links') = 0
        /\ ~KeysPanics(links') /\ OrderOf(links') = <<>>
        /\ ~ret'.panicked
        /\ onItemEvicted =>
              /\ Len(evicted') = Cardinality(PresentIn(cache))
              /\ Range(evicted') =
                    {<<k, ValueIn(links, cache, k)>> : k \in PresentIn(cache)}]_vars

\* C7 witness: Drop emptied a cache of at least two entries and the callback
\* got both.
C7_Witness ==
    /\ op.name = "Drop" /\ onItemEvicted /\ op.size >= 2
    /\ Len(evicted) = op.size
    /\ Size = 0 /\ Present = {}

\* C8: after Drop, with or without a callback, no key is present: Has is
\* false for every key.
C8_DropRemovesAll == op.name = "Drop" => Present = {}

\* C9: AdjustCapacity(C) on a cache of size S with 0 <= C < S evicts the
\* S - C least recently used entries, least recently used first, with one
\* callback each, keeps the C most recently used in order, and ends with
\* Size() = C = Capacity(); with C >= S it evicts nothing, keeps every entry
\* and sets Capacity() = C.
C9_AdjustShrinkGrow ==
    [][(op'.name = "AdjustCapacity" /\ op'.n >= 0 /\ ~KeysPanics(links)) =>
        /\ ~ret'.panicked /\ ~KeysPanics(links')
        /\ capacity' = op'.n
        /\ IF op'.n < ListLen(links)
           THEN LET gone == Take(OrderOf(links), ListLen(links) - op'.n)
                IN  /\ ListLen(links') = op'.n
                    /\ OrderOf(links') = DropFirst(OrderOf(links), ListLen(links) - op'.n)
                    /\ PresentIn(cache') = Range(OrderOf(links'))
                    /\ onItemEvicted =>
                          /\ Len(evicted') = Len(gone)
                          /\ \A j \in 1..Len(gone) :
                                evicted'[j] = <<gone[j], ValueIn(links, cache, gone[j])>>
                    /\ ~onItemEvicted => evicted' = <<>>
           ELSE /\ evicted' = <<>>
                /\ UNCHANGED <<links, cache>>]_vars

\* C10: for every integer n, AdjustCapacity(n) returns the number of entries
\* it removed, which is also the number of callback invocations it made.
C10_AdjustReturnsEvicted ==
    [][op'.name = "AdjustCapacity" =>
        /\ ret'.n = Cardinality(PresentIn(cache)) - Cardinality(PresentIn(cache'))
        /\ onItemEvicted => ret'.n = Len(evicted')]_vars

\* C11: New with a capacity <= 0 returns an error and no cache; with a
\* capacity > 0 it returns, without error, an empty cache (Size() 0, no keys)
\* whose Capacity() is that capacity; no other operation returns an error.
C11_Construction ==
    /\ err <=> (op.name = "New" /\ op.n <= 0)
    /\ op.name = "New" =>
          /\ Size = 0 /\ Present = {} /\ evicted = <<>>
          /\ ~KeysPanics(links) /\ OrderOf(links) = <<>>
          /\ op.n > 0 => ret.ok /\ Capacity = op.n
          /\ op.n <= 0 => ~ret.ok

\* C11 witness: New accepted the largest capacity and the cache is empty.
C11_Witness ==
    /\ op.name = "New" /\ op.n = MaxCap /\ ~err /\ ret.ok
    /\ Capacity = MaxCap /\ Size = 0 /\ Present = {}

\* C12: once 2N distinct keys were Put into a fresh cache of capacity N, the
\* callback was invoked exactly N times, each time with a key and the value
\* inserted for it, Size() is N, and the present keys are exactly the last N
\* inserted, each with its value: Has is false for the first N and Get hits
\* for the last N.
C12_FillEvictsFirstHalf ==
    (hist.on /\ Len(hist.puts) = 2 * capacity) =>
        LET N == capacity
        IN  /\ onItemEvicted =>
                  /\ Len(hist.calls) = N
                  /\ Range(hist.calls) = {hist.puts[i] : i \in 1..N}
            /\ ~onItemEvicted => hist.calls = <<>>
            /\ Size = N
            /\ Present = {PutKeys[i] : i \in (N + 1)..(2 * N)}
            /\ \A i \in 1..N : cache[PutKeys[i]] = Nil
            /\ \A i \in (N + 1)..(2 * N) :
                  /\ cache[PutKeys[i]] # Nil
                  /\ ValueIn(links, cache, PutKeys[i]) = hist.puts[i][2]

\* C12 witness: a cache of capacity 2 with a callback got 4 distinct keys;
\* the callback ran twice and 2 entries are left.
C12_Witness ==
    /\ hist.on /\ onItemEvicted /\ capacity = 2
    /\ Len(hist.puts) = 4 /\ Len(hist.calls) = 2
    /\ Size = 2

\* C13: Keys() returns the present keys, each once, from the least recently
\* used (first) to the most recently used (last).
C13_KeysOrder == op.name = "Keys" => (~ret.panicked /\ ret.keys = recency)

\* C14: LeastRecentlyUsed() returns the key and value of the least recently
\* Put/Get entry when there is one and (nil, nil), without crashing, when
\* there is none; it changes neither the list, the map nor the capacity.
C14_LeastRecentlyUsed ==
    [][op'.name = "LeastRecentlyUsed" =>
        /\ ~ret'.panicked
        /\ IF recency = <<>>
           THEN ret'.key = NilVal /\ ret'.value = NilVal
           ELSE ret'.key = Head(recency) /\ ret'.value = lastPut[Head(recency)]
        /\ UNCHANGED <<links, cache, capacity, recency>>
        /\ evicted' = <<>>]_vars

\* C18: between operations, the keys of the elements linked in the list are
\* the keys of the map, as many as len says, every key of the map points to a
\* linked element that stores it, and Keys() returns exactly the keys for
\* which Has is true.
C18_IndexMatchesList ==
    ~err =>
        /\ {links.e[a].key : a \in Linked(links)} = Present
        /\ Cardinality(Linked(links)) = Cardinality(Present)
        /\ ListLen(links) = Cardinality(Present)
        /\ \A k \in Present : cache[k] \in Linked(links) /\ links.e[cache[k]].key = k
        /\ ~KeysPanics(links) /\ Range(OrderOf(links)) = Present

\* C20: Size() is never negative and equals the number of keys for which Has
\* is true.
C20_SizeCountsKeys == ~err => (Size >= 0 /\ Size = Cardinality(Present))

\* the methods that change the list, the map or the capacity
Mutators == {"Get", "Put", "Del", "Drop", "AdjustCapacity"}

\* C15: while a goroutine is inside the body of Get, Put, Del, Drop or
\* AdjustCapacity, no other goroutine is inside the body of any public method
\* of the same cache.
C15_MutatorsExclusive ==
    \A t \in Threads :
        (InBody(t) /\ frame[t].name \in Mutators) =>
            \A u \in Threads \ {t} : ~InBody(u)

\* C16: a goroutine inside the body of a public method holds the cache's
\* lock, in shared or exclusive mode.
C16_BodyHoldsLock ==
    \A t \in Threads : InBody(t) => (lock.w = t \/ t \in lock.r)

\* C17: a Size() that returns while AdjustCapacity(C) of another goroutine, the
\* only call in progress that changes the cache, is shrinking a cache of
\* size S > C returns S or C, and a Keys() that returns then has S or C keys,
\* none of them a nil slot.
C17_NoPartialMutation ==
    [][\A u \in Threads :
          (/\ pc[u] \in {"loop", "evict"}
           /\ frame[u].n >= 0 /\ frame[u].size > frame[u].n
           /\ \A w \in Threads \ {u} : ~(InBody(w) /\ frame[w].name \in Mutators)
           /\ pc'[u] = pc[u] /\ frame'[u] = frame[u]
           /\ ~ret'.panicked)
          => /\ op'.name = "Size" => ret'.n \in {frame[u].size, frame[u].n}
             /\ op'.name = "Keys" =>
                   /\ Len(ret'.keys) \in {frame[u].size, frame[u].n}
                   /\ \A j \in 1..Len(ret'.keys) : ret'.keys[j] # NilVal]_vars

\* C19: a goroutine that is not inside a call holds no lock, so the lock is
\* free whenever no call is in progress; and while a call is in progress some
\* goroutine inside a call can take its next step (it is past its lock call,
\* or the lock it waits for is free), so that under fair scheduling every
\* call returns.
C19_NoCallStuck ==
    /\ \A t \in Threads : pc[t] = "idle" => (lock.w # t /\ t \notin lock.r)
    /\ (\E t \in Threads : pc[t] # "idle") =>
          \E u \in Threads : CanLockW(u) \/ CanRLock(u) \/ CanRun(u)

\* C21: no public operation panics, and Keys() returns normally with exactly
\* Size() elements: the walk from the tail never finds more elements than
\* len counts.
C21_NoPanic ==
    ~err => /\ ~ret.panicked
            /\ ~KeysPanics(links)
            /\ Len(OrderOf(links)) = Size

\* C22: under concurrent calls the callback gets an entry only while the
\* entry is in the cache, so at most once per residency, and a returning
\* AdjustCapacity reports as many evictions as it made callback invocations
\* for entries it removed.
C22_NotifiedOnce ==
    [][(\A t \in Threads :
          (pc[t] = "evict" /\ Len(frame'[t].ev) > Len(frame[t].ev)) =>
              (/\ cache[frame'[t].ev[Len(frame'[t].ev)][1]] = frame[t].kv
               /\ cache'[frame'[t].ev[Len(frame'[t].ev)][1]] = Nil))
       /\ ((/\ op'.name = "AdjustCapacity" /\ onItemEvicted /\ ~ret'.panicked
            /\ \E u \in Threads : pc[u] = "loop" /\ pc'[u] = "idle")
              => ret'.n = Len(evicted'))]_vars

\* ------------------------------------------------------ model sanity
\* the allocator always has a free address for a new element
AllocatorHasRoom == ~err => FreeIds(links, cache) # {}
\* the element a key maps to stores that key
MapKeyMatches == \A k \in Keys : cache[k] # Nil => links.e[cache[k]].key = k
====
